---- MODULE Spec2Model ----
(* Model of the Windows runner of GalleVR:                                  *)
(*   windows/runner/flutter_window.cpp  (FlutterWindow)                     *)
(*   windows/flutter/generated_plugin_registrant.cc  (RegisterPlugins)      *)
(* Every handler is one action.  Each action records the calls it makes on  *)
(* its collaborators, in order, in `trace`, and its return value in `ret`.  *)
EXTENDS Integers, Sequences, FiniteSets, TLC

VARIABLES
    args,                \* project_.dart_entrypoint_arguments()
    flutter_controller_, \* the std::unique_ptr<FlutterViewController> member
    callback,            \* first-frame callback of the held engine
    visible,             \* whether Show() has made the window visible
    state,               \* lifecycle of the window, as driven by the handlers
    crashed,             \* the process died on a null dereference
    lastOp,              \* the last handler that ran, with its inputs
    trace,               \* the calls the last handler made, in order
    ret                  \* what the last handler returned

vars == <<args, flutter_controller_, callback, visible, state, crashed,
          lastOp, trace, ret>>

----------------------------------------------------------------------------
(* Bounds and input domains *)

MaxArgs == 2

ArgStrings == {"--start-minimized", "--START-MINIMIZED", "--start-minimized=1"}

ArgSeqs == UNION {[1..n -> ArgStrings] : n \in 0..MaxArgs}

Messages == {"WM_FONTCHANGE", "WM_CLOSE", "WM_SIZE"}

\* values of GetAsyncKeyState(VK_MENU): bit 15 = key down, bit 0 = pressed
\* since the previous call
KeyStates == {0, 1, 32768, 32769}

LResults == {0, 1}

----------------------------------------------------------------------------
(* Values *)

\* an empty unique_ptr
NullCtrl == [held |-> FALSE, engine |-> FALSE, view |-> FALSE]

\* std::nullopt of std::optional<LRESULT>
NullOpt == [has |-> FALSE, value |-> 0]

Some(v) == [has |-> TRUE, value |-> v]

OptResults == {NullOpt} \cup {Some(v) : v \in LResults}

\* one call made by a handler: what is called, its (string) argument, and the
\* value of flutter_controller_ at the moment of the call
Ev(call, arg, c) == [call |-> call, arg |-> arg, ctrl |-> c]

NoRet == [kind |-> "none", b |-> FALSE, l |-> 0]
RetBool(b) == [kind |-> "bool", b |-> b, l |-> 0]
RetL(l) == [kind |-> "lresult", b |-> FALSE, l |-> l]
RetVoid == [kind |-> "void", b |-> FALSE, l |-> 0]
RetCrash == [kind |-> "crash", b |-> FALSE, l |-> 0]

Op(name, msg, ks, er, consulted, br, baseOk, ctor, priorState, priorCtrl) ==
    [name |-> name, message |-> msg, keyState |-> ks, engineResult |-> er,
     consulted |-> consulted, baseResult |-> br, baseOk |-> baseOk,
     ctor |-> ctor, priorState |-> priorState, priorCtrl |-> priorCtrl]

NoOp == Op("none", "none", 0, NullOpt, FALSE, 0, FALSE, NullCtrl,
           "Uncreated", NullCtrl)

----------------------------------------------------------------------------
(* Pure helpers *)

\* the scan of the startup arguments in the first-frame callback: the loop
\* stops at the first element equal to the flag
RECURSIVE ScanArgs(_, _)
ScanArgs(a, i) ==
    IF i > Len(a) THEN FALSE
    ELSE IF a[i] = "--start-minimized" THEN TRUE
    ELSE ScanArgs(a, i + 1)

start_minimized_FirstOnly(a) == Len(a) > 0 /\ a[1] = "--start-minimized"

start_minimized(a) == ScanArgs(a, 1)

\* std::make_unique<FlutterViewController>(...): the member always holds the
\* new controller, whatever its engine and view turned out to be
MakeController_NullOnFailure(e, v) ==
    IF e /\ v THEN [held |-> TRUE, engine |-> e, view |-> v] ELSE NullCtrl

MakeController(e, v) == [held |-> TRUE, engine |-> e, view |-> v]

\* !(!engine() || !view())
SetupOk_EngineOnly(c) == c.engine

SetupOk(c) == c.engine /\ c.view

\* if (flutter_controller_) { flutter_controller_ = nullptr; }
ReleaseController_Keep(c) == c

ReleaseController(c) == IF c.held THEN NullCtrl ELSE c

\* if (result): the optional holds a value, whatever the value is
Handled_Truthy(result) == result.has /\ result.value # 0

Handled(result) == result.has

\* GetAsyncKeyState(VK_MENU) & 0x8000
AltHeld_NonZero(ks) == ks # 0

AltHeld(ks) == (ks \div 32768) % 2 = 1

\* RegisterPlugins(registry): the six registration entry points, each called
\* with registry->GetRegistrarForPlugin(<its own name>)
RegisterPlugins_WrongRegistrar(c) ==
    << Ev("AudioplayersWindowsPluginRegisterWithRegistrar",
          "AudioplayersWindowsPlugin", c),
       Ev("PasteboardPluginRegisterWithRegistrar", "PasteboardPlugin", c),
       Ev("PermissionHandlerWindowsPluginRegisterWithRegistrar",
          "PermissionHandlerWindowsPlugin", c),
       Ev("SystemTrayPluginRegisterWithRegistrar", "SystemTrayPlugin", c),
       Ev("UrlLauncherWindowsRegisterWithRegistrar", "SystemTrayPlugin", c),
       Ev("WindowsSingleInstancePluginRegisterWithRegistrar",
          "WindowsSingleInstancePlugin", c) >>

RegisterPlugins(c) ==
    << Ev("AudioplayersWindowsPluginRegisterWithRegistrar",
          "AudioplayersWindowsPlugin", c),
       Ev("PasteboardPluginRegisterWithRegistrar", "PasteboardPlugin", c),
       Ev("PermissionHandlerWindowsPluginRegisterWithRegistrar",
          "PermissionHandlerWindowsPlugin", c),
       Ev("SystemTrayPluginRegisterWithRegistrar", "SystemTrayPlugin", c),
       Ev("UrlLauncherWindowsRegisterWithRegistrar", "UrlLauncherWindows", c),
       Ev("WindowsSingleInstancePluginRegisterWithRegistrar",
          "WindowsSingleInstancePlugin", c) >>

----------------------------------------------------------------------------
(* State machine *)

Init ==
    /\ args \in ArgSeqs
    /\ flutter_controller_ = NullCtrl
    /\ callback = "none"
    /\ visible = FALSE
    /\ state = "Uncreated"
    /\ crashed = FALSE
    /\ lastOp = NoOp
    /\ trace = << >>
    /\ ret = NoRet

\* bool FlutterWindow::OnCreate()
OnCreate ==
    /\ ~crashed
    /\ \E baseOk \in BOOLEAN, e \in BOOLEAN, v \in BOOLEAN :
        LET old  == flutter_controller_
            base == << Ev("Win32Window::OnCreate", "", old) >>
            c    == MakeController(e, v)
            ctor == << Ev("GetClientArea", "", old),
                       Ev("FlutterViewController", "", old) >>
            rest == << Ev("SetChildContent", "", c),
                       Ev("SetNextFrameCallback", "", c),
                       Ev("ForceRedraw", "", c) >>
        IN  IF ~baseOk
            THEN /\ ~e /\ ~v      \* the constructor is not reached
                 /\ lastOp' = Op("OnCreate", "none", 0, NullOpt, FALSE, 0,
                                 FALSE, NullCtrl, state, old)
                 /\ trace' = base
                 /\ ret' = RetBool(FALSE)
                 /\ state' = "FailedBase"
                 /\ UNCHANGED <<flutter_controller_, callback>>
            ELSE /\ lastOp' = Op("OnCreate", "none", 0, NullOpt, FALSE, 0,
                                 TRUE, [held |-> TRUE, engine |-> e,
                                        view |-> v], state, old)
                 /\ flutter_controller_' = c
                 /\ IF SetupOk(c)
                    THEN /\ trace' = base \o ctor \o RegisterPlugins(c) \o rest
                         /\ ret' = RetBool(TRUE)
                         /\ callback' = "pending"
                         /\ state' = "Created"
                    ELSE /\ trace' = base \o ctor
                         /\ ret' = RetBool(FALSE)
                         /\ callback' = "none"
                         /\ state' = "FailedEngine"
    /\ UNCHANGED <<args, visible, crashed>>

\* the lambda handed to SetNextFrameCallback, run by the engine after its
\* first frame
FirstFrameCallback ==
    /\ ~crashed
    /\ callback = "pending"
    /\ flutter_controller_.held
    /\ LET sm == start_minimized(args)
       IN  /\ trace' = IF ~sm THEN << Ev("Show", "", flutter_controller_) >>
                       ELSE << >>
           /\ visible' = IF ~sm THEN TRUE ELSE visible
    /\ callback' = "ran"
    /\ lastOp' = Op("FirstFrameCallback", "none", 0, NullOpt, FALSE, 0,
                    FALSE, NullCtrl, state, flutter_controller_)
    /\ ret' = RetVoid
    /\ UNCHANGED <<args, flutter_controller_, state, crashed>>

\* void FlutterWindow::OnDestroy()
OnDestroy ==
    /\ ~crashed
    /\ LET c == ReleaseController(flutter_controller_)
       IN  /\ flutter_controller_' = c
           /\ trace' = << Ev("Win32Window::OnDestroy", "", c) >>
           /\ callback' = IF c.held THEN callback ELSE "none"
    /\ lastOp' = Op("OnDestroy", "none", 0, NullOpt, FALSE, 0, FALSE,
                    NullCtrl, state, flutter_controller_)
    /\ ret' = RetVoid
    /\ state' = "Destroyed"
    /\ UNCHANGED <<args, visible, crashed>>

\* LRESULT FlutterWindow::MessageHandler(hwnd, message, wparam, lparam)
\*   er: what HandleTopLevelWindowProc reports (when it is asked)
\*   ks: what GetAsyncKeyState(VK_MENU) returns (when it is asked)
\*   br: what Win32Window::MessageHandler returns
\*   ub: what a null dereference does: kill the process, or go on
MessageHandler ==
    /\ ~crashed
    /\ \E msg \in Messages, er \in OptResults, ks \in KeyStates,
          br \in LResults, ub \in {"crash", "proceed"} :
        LET c       == flutter_controller_
            top     == IF c.held
                       THEN << Ev("HandleTopLevelWindowProc", msg, c) >>
                       ELSE << >>
            base    == << Ev("Win32Window::MessageHandler", msg, c) >>
            reload  == << Ev("ReloadSystemFonts", "", c) >>
            notify  == << Ev("MethodChannel", "gallevr/window", c),
                          Ev("InvokeMethod", "onWindowHidden", c) >>
            returns == c.held /\ Handled(er)
            nullUse == ~returns /\ msg = "WM_FONTCHANGE"
                       /\ ~(c.held /\ c.engine)
            asksKey == ~returns /\ msg = "WM_CLOSE"
        IN  /\ c.held \/ er = NullOpt
            /\ asksKey \/ ks = 0
            /\ returns => br = 0
            /\ nullUse \/ ub = "proceed"
            /\ lastOp' = Op("MessageHandler", msg, ks, er, c.held, br, FALSE,
                            NullCtrl, state, c)
            /\ IF returns
               THEN /\ trace' = top
                    /\ ret' = RetL(er.value)
                    /\ crashed' = FALSE
               ELSE IF msg = "WM_FONTCHANGE"
               THEN IF nullUse /\ ub = "crash"
                    THEN /\ trace' = top \o reload
                         /\ ret' = RetCrash
                         /\ crashed' = TRUE
                    ELSE /\ trace' = top \o reload \o base
                         /\ ret' = RetL(br)
                         /\ crashed' = FALSE
               ELSE IF msg = "WM_CLOSE"
               THEN /\ trace' = IF AltHeld(ks) THEN top \o base
                                ELSE IF c.held /\ c.engine
                                THEN top \o notify \o base
                                ELSE top \o base
                    /\ ret' = RetL(br)
                    /\ crashed' = FALSE
               ELSE /\ trace' = top \o base
                    /\ ret' = RetL(br)
                    /\ crashed' = FALSE
    /\ UNCHANGED <<args, flutter_controller_, callback, visible, state>>

Next == OnCreate \/ FirstFrameCallback \/ OnDestroy \/ MessageHandler

Spec == Init /\ [][Next]_vars

----------------------------------------------------------------------------
(* Properties *)

Flag == "--start-minimized"

HasFlag == \E i \in 1..Len(args) : args[i] = Flag

Calls(name) == {i \in 1..Len(trace) : trace[i].call = name}

LocalCalls == {"ReloadSystemFonts", "MethodChannel", "InvokeMethod",
               "Win32Window::MessageHandler"}

\* the calls of a creation that carry a plugin name, as <<entry point, name>>
PluginCalls ==
    LET named == SelectSeq(trace, LAMBDA ev : ev.arg # "")
    IN  [i \in 1..Len(named) |-> <<named[i].call, named[i].arg>>]

SixPlugins ==
    << <<"AudioplayersWindowsPluginRegisterWithRegistrar",
         "AudioplayersWindowsPlugin">>,
       <<"PasteboardPluginRegisterWithRegistrar", "PasteboardPlugin">>,
       <<"PermissionHandlerWindowsPluginRegisterWithRegistrar",
         "PermissionHandlerWindowsPlugin">>,
       <<"SystemTrayPluginRegisterWithRegistrar", "SystemTrayPlugin">>,
       <<"UrlLauncherWindowsRegisterWithRegistrar", "UrlLauncherWindows">>,
       <<"WindowsSingleInstancePluginRegisterWithRegistrar",
         "WindowsSingleInstancePlugin">> >>

\* the operations of the controller and of its engine handle
ControllerOps ==
    {SixPlugins[i][1] : i \in 1..Len(SixPlugins)} \cup
    {"SetChildContent", "SetNextFrameCallback", "ForceRedraw",
     "HandleTopLevelWindowProc", "ReloadSystemFonts", "MethodChannel",
     "InvokeMethod"}

\* C1: OnCreate returns true if and only if the base creation succeeded and
\* the constructed controller has a non-null engine and a non-null view.
C1_OnCreateResult ==
    lastOp.name = "OnCreate" =>
        ret = RetBool(lastOp.baseOk /\ lastOp.ctor.engine /\ lastOp.ctor.view)

C1_Witness ==
    /\ lastOp.name = "OnCreate"
    /\ lastOp.baseOk /\ lastOp.ctor.engine /\ ~lastOp.ctor.view
    /\ ret = RetBool(FALSE)

\* C2: with an argument equal to --start-minimized (at any position, exact
\* match) Show is never invoked and the window stays hidden; without one, the
\* first-frame callback invokes Show and the window is visible from then on.
C2_StartMinimized ==
    /\ HasFlag => ~visible /\ Calls("Show") = {}
    /\ (~HasFlag /\ lastOp.name = "FirstFrameCallback") =>
           Cardinality(Calls("Show")) = 1
    /\ (~HasFlag /\ callback = "ran") => visible

C2_Witness ==
    /\ callback = "ran"
    /\ Len(args) = 2 /\ args[1] = "--START-MINIMIZED" /\ args[2] = Flag
    /\ lastOp.name = "FirstFrameCallback"
    /\ ~visible

\* C3 as stated: every close request without Alt held makes exactly one
\* onWindowHidden invocation, in any window state; any other message and a
\* close request with Alt held make none.
C3_Original ==
    lastOp.name = "MessageHandler" =>
        Cardinality(Calls("InvokeMethod")) =
            IF lastOp.message = "WM_CLOSE" /\ lastOp.keyState < 32768
            THEN 1 ELSE 0

\* C3 amended: a close request makes exactly one onWindowHidden invocation on
\* channel gallevr/window when Alt is not held, the engine's top-level handler
\* did not handle the message, and a controller with a non-null engine is
\* held; in every other case MessageHandler makes none.
C3_Amended ==
    lastOp.name = "MessageHandler" =>
        /\ Cardinality(Calls("InvokeMethod")) =
               IF /\ lastOp.message = "WM_CLOSE"
                  /\ lastOp.keyState < 32768
                  /\ lastOp.priorCtrl.held /\ lastOp.priorCtrl.engine
                  /\ ~lastOp.engineResult.has
               THEN 1 ELSE 0
        /\ \A i \in Calls("InvokeMethod") :
               /\ trace[i].arg = "onWindowHidden"
               /\ i > 1
               /\ trace[i - 1].call = "MethodChannel"
               /\ trace[i - 1].arg = "gallevr/window"
        /\ Cardinality(Calls("MethodChannel")) =
               Cardinality(Calls("InvokeMethod"))

C3_Witness ==
    /\ lastOp.name = "MessageHandler"
    /\ lastOp.message = "WM_CLOSE"
    /\ lastOp.keyState = 1
    /\ state = "Created"
    /\ Cardinality(Calls("InvokeMethod")) = 1

\* C4: when the engine's top-level handler reports a result, MessageHandler
\* returns exactly that result and does no local handling: no font reload, no
\* notification, no call of the base handler.
C4_HandledShortCircuit ==
    (lastOp.name = "MessageHandler" /\ lastOp.consulted
       /\ lastOp.engineResult.has) =>
        /\ ret = RetL(lastOp.engineResult.value)
        /\ \A i \in 1..Len(trace) : trace[i].call \notin LocalCalls

C4_Witness ==
    /\ lastOp.name = "MessageHandler"
    /\ lastOp.consulted
    /\ lastOp.engineResult = Some(0)
    /\ lastOp.message = "WM_CLOSE"
    /\ ret = RetL(0)
    /\ Len(trace) = 1

\* C5: every OnDestroy invokes the base destruction routine, exactly once,
\* and no controller is held at the moment of that call.
C5_ReleaseBeforeBase ==
    lastOp.name = "OnDestroy" =>
        /\ Cardinality(Calls("Win32Window::OnDestroy")) = 1
        /\ \A i \in Calls("Win32Window::OnDestroy") : ~trace[i].ctrl.held
        /\ ~flutter_controller_.held

C5_Witness ==
    /\ lastOp.name = "OnDestroy"
    /\ lastOp.priorState = "FailedEngine"
    /\ lastOp.priorCtrl.held
    /\ Cardinality(Calls("Win32Window::OnDestroy")) = 1

\* C6 as stated: each OnCreate call invokes the six registration entry points
\* exactly once, in the declared order, each with its own registrar.
C6_Original ==
    lastOp.name = "OnCreate" => PluginCalls = SixPlugins

\* C6 amended: each OnCreate call that returns true invokes the six
\* registration entry points exactly once, in the declared order, each with
\* the registrar of its own name, whatever the startup arguments; an OnCreate
\* call that returns false invokes none.
C6_Amended ==
    lastOp.name = "OnCreate" =>
        PluginCalls = IF ret.b THEN SixPlugins ELSE << >>

C6_Witness ==
    /\ lastOp.name = "OnCreate"
    /\ ret = RetBool(TRUE)
    /\ HasFlag
    /\ Len(PluginCalls) = 6

\* C7: no operation of the controller or of its engine handle is performed
\* unless a controller is held whose engine and view are both non-null.
C7_NoUseBeforeConfirmed ==
    \A i \in 1..Len(trace) :
        trace[i].call \in ControllerOps =>
            /\ trace[i].ctrl.held
            /\ trace[i].ctrl.engine
            /\ trace[i].ctrl.view

\* C8: before any creation and after OnDestroy, MessageHandler only falls
\* through: its one call is the base handler, whose result it returns.
C8_FallThroughWhenNotCreated ==
    (lastOp.name = "MessageHandler"
       /\ lastOp.priorState \in {"Uncreated", "Destroyed"}) =>
        /\ trace = << Ev("Win32Window::MessageHandler", lastOp.message,
                         lastOp.priorCtrl) >>
        /\ ret = RetL(lastOp.baseResult)

\* C9 as stated: after OnCreate fails at the engine/view check no controller
\* is held, and a controller is held only in the Created state.
C9_Original ==
    /\ (lastOp.name = "OnCreate" /\ lastOp.baseOk
          /\ ~(lastOp.ctor.engine /\ lastOp.ctor.view)) =>
           ~flutter_controller_.held
    /\ flutter_controller_.held => state = "Created"

\* C9 amended: after OnCreate fails at the engine/view check the constructed
\* controller (with its null engine or view) stays held, through any later
\* message, until OnDestroy releases it or another OnCreate replaces it; after
\* OnDestroy no controller is held.
C9_Amended ==
    /\ state = "FailedEngine" =>
           /\ flutter_controller_.held
           /\ ~(flutter_controller_.engine /\ flutter_controller_.view)
    /\ state = "Destroyed" => ~flutter_controller_.held
    /\ state = "Created" =>
           /\ flutter_controller_.held
           /\ flutter_controller_.engine /\ flutter_controller_.view

C9_Witness ==
    /\ state = "FailedEngine"
    /\ lastOp.name = "MessageHandler"
    /\ flutter_controller_.held
    /\ ~flutter_controller_.view

\* C10: for every message the engine's top-level handler does not handle,
\* MessageHandler calls the base handler exactly once and returns its result.
C10_BaseHandlerAlwaysCalled ==
    (lastOp.name = "MessageHandler"
       /\ ~(lastOp.consulted /\ lastOp.engineResult.has)) =>
        /\ Cardinality(Calls("Win32Window::MessageHandler")) = 1
        /\ ret = RetL(lastOp.baseResult)

====
